---- MODULE Spec2Model ----
(***************************************************************************)
(* A model of NCDACDB: the update-filtered clone of a store                *)
(* (NCDACDB/downsize.py) and the fixed-width decoding of a data file by    *)
(* its description file (NCDACDB/build.py).                                *)
(*                                                                         *)
(* Text is a sequence of one-character strings, so that slicing,           *)
(* stripping, quoting and comparing are computed character by character.   *)
(***************************************************************************)
EXTENDS Integers, Sequences, FiniteSets, TLC

\* ------------------------------------------------------------------ bounds

\* Rows per table of the source store.
MaxRows == 2

\* ------------------------------------------------------------- text helpers

\* The SQL NULL / Python None cell.
NULL == <<"<NULL>">>

\* str(None), as an f-string renders a None identifier.
NoneText == <<"N", "o", "n", "e">>

\* The characters dates are made of, in code-point order ('-' < '0' < ... < '9').
CharOrder == <<"-", "0", "1", "2", "3", "4", "5", "6", "7", "8", "9">>

CharCode(c) == CHOOSE k \in 1..Len(CharOrder) : CharOrder[k] = c

\* a >= b for two texts, byte by byte, as SQLite's BINARY collation compares.
RECURSIVE TextGE(_, _)
TextGE(a, b) ==
    IF b = <<>> THEN TRUE
    ELSE IF a = <<>> THEN FALSE
    ELSE IF Head(a) = Head(b) THEN TextGE(Tail(a), Tail(b))
    ELSE CharCode(Head(a)) > CharCode(Head(b))

EndsWith(s, suffix) ==
    /\ Len(s) >= Len(suffix)
    /\ SubSeq(s, Len(s) - Len(suffix) + 1, Len(s)) = suffix

\* ------------------------------------------------------- names of the code

DataSuffix == <<"_", "d", "a", "t", "a">>
DescSuffix == <<"_", "d", "e", "s", "c">>

\* extract_ids_by_update's default table, 'OFNT3AA1_data'.
ParentTable == <<"O", "F", "N", "T", "3", "A", "A", "1">> \o DataSuffix
ParentDesc  == <<"O", "F", "N", "T", "3", "A", "A", "1">> \o DescSuffix
ChildTable  == <<"I", "N", "M", "T", "4", "B", "B", "1">> \o DataSuffix

\* extract_ids_by_update's default variable, 'DTOFUPDT'.
UpdateColumn == <<"D", "T", "O", "F", "U", "P", "D", "T">>

\* ----------------------------------------------------------- the inputs

Quote == "'"

IdA   == <<"A">>
IdB   == <<"B">>
IdC   == <<"C">>
\* A','C : an identifier holding quote characters and a comma.
IdQ   == <<"A", Quote, ",", Quote, "C">>
\* B' : an identifier ending in a quote character.
IdBad == <<"B", Quote>>

DateOld == <<"2", "0", "2", "0", "-", "0", "1", "-", "0", "1">>
DateMid == <<"2", "0", "2", "2", "-", "0", "1", "-", "0", "1">>
DateNew == <<"2", "0", "2", "3", "-", "0", "6", "-", "0", "1">>

ParentRowValues ==
    { <<IdA, DateOld>>, <<IdA, DateNew>>, <<IdB, DateNew>>,
      <<IdQ, DateNew>>, <<IdBad, DateNew>>, <<IdB, NULL>> }

ChildRowValues == { <<IdA, <<"x">>>>, <<IdC, <<"y">>>>, <<IdQ, <<"z">>>> }

DateFilters == { DateMid, DateNew }

SeqsUpTo(S, n) == UNION { [1..k -> S] : k \in 0..n }

Table(name, cols, rows) == [name |-> name, cols |-> cols, rows |-> rows]

DescRows == << <<<<"C", "M", "D">>, <<"C", "H", "A", "R">>>>,
               <<IdA, <<"D", "A", "T", "E">>>> >>

DescTable == Table(ParentDesc, <<<<"N", "a", "m", "e">>, <<"T", "y", "p", "e">>>>, DescRows)

ParentCols == <<<<"C", "M", "D", "O", "R", "N", "U", "M">>, UpdateColumn>>
ChildCols  == <<<<"I", "N", "M", "I", "D">>, <<"V">>>>

\* The stores a build produces: a description table, the parent table and a
\* child table whose identifier column has another name.
FullStores ==
    { <<DescTable, Table(ParentTable, ParentCols, p), Table(ChildTable, ChildCols, c)>> :
         p \in SeqsUpTo(ParentRowValues, MaxRows), c \in SeqsUpTo(ChildRowValues, MaxRows) }

\* Stores the identifier extraction fails on (no parent table; a parent
\* table without the update column), and a store whose first table is a
\* fact table.
OtherStores ==
    { <<DescTable, Table(ChildTable, ChildCols, << <<IdA, <<"x">>>> >>)>>,
      <<DescTable, Table(ParentTable, ChildCols, << <<IdA, <<"x">>>> >>)>>,
      <<Table(ChildTable, ChildCols, << <<IdA, <<"x">>>> >>), DescTable,
        Table(ParentTable, ParentCols, << <<IdBad, DateNew>> >>)>> }

SourceStores == FullStores \cup OtherStores

Paths == { "in.sqlite", "out.sqlite" }

Absent == [exists |-> FALSE, tables |-> <<>>]
File(tables) == [exists |-> TRUE, tables |-> tables]

\* ------------------------------------------------------------------ state

VARIABLES
    fs,            \* the file system: path -> file (a store, or absent)
    pc,            \* where downsize_by_update is
    input_db,      \* its arguments
    output_db,
    date_filter,
    wanted_list,   \* its locals
    wanted_ids,
    tvar_pairs,
    idx,           \* the table the loop of line 118 is at
    conn_new,      \* whether the connection of line 106 was opened
    err,           \* the error the call ended with, "" if none
    fs0,           \* the file system when the call began
    des,           \* build.py: see the second half of the module
    dat

dsVars == <<fs, pc, input_db, output_db, date_filter, wanted_list, wanted_ids,
            tvar_pairs, idx, conn_new, err, fs0>>
vars == <<dsVars, des, dat>>

\* ---------------------------------------------------- the store's queries

HasTable(tables, name) == \E k \in 1..Len(tables) : tables[k].name = name

TableNamed(tables, name) ==
    tables[CHOOSE k \in 1..Len(tables) : tables[k].name = name]

HasColumn(t, col) == \E k \in 1..Len(t.cols) : t.cols[k] = col

ColumnIndex(t, col) == CHOOSE k \in 1..Len(t.cols) : t.cols[k] = col

\* The elements of a sequence whose place is marked in mask, in order.
RECURSIVE KeepMarked(_, _)
KeepMarked(rows, mask) ==
    IF rows = <<>> THEN <<>>
    ELSE (IF Head(mask) THEN <<Head(rows)>> ELSE <<>>)
         \o KeepMarked(Tail(rows), Tail(mask))

\* variable >= 'date_filter': NULL compares to nothing.
UpdatedSince(t, variable, filter, row) ==
    LET cell == row[ColumnIndex(t, variable)]
    IN  cell # NULL /\ TextGE(cell, filter)

\* extract_ids_by_update's query and its row[0] list; ok is FALSE when
\* the table or the variable does not exist (sqlite3.OperationalError).
ExtractIdsByUpdate(tables, filter, table, variable) ==
    IF ~HasTable(tables, table) \/ ~HasColumn(TableNamed(tables, table), variable)
    THEN [ok |-> FALSE, ids |-> <<>>]
    ELSE LET t    == TableNamed(tables, table)
             hit  == KeepMarked(t.rows, [k \in 1..Len(t.rows) |->
                                  UpdatedSince(t, variable, filter, t.rows[k])])
         IN  [ok |-> TRUE, ids |-> [k \in 1..Len(hit) |-> hit[k][1]]]

\* f"{id}": the identifier as text.
PyStr(v) == IF v = NULL THEN NoneText ELSE v

\* ','.join(f"'{id}'" for id in wanted_list)
RECURSIVE JoinQuoted(_)
JoinQuoted(ids) ==
    IF ids = <<>> THEN <<>>
    ELSE <<Quote>> \o PyStr(Head(ids)) \o <<Quote>>
         \o (IF Len(ids) > 1 THEN <<",">> ELSE <<>>)
         \o JoinQuoted(Tail(ids))

\* SQLite's reading of the text between the parentheses of IN (...): a
\* comma-separated list of string literals, '' inside a literal standing
\* for one quote. mode is "start" (a literal must begin), "in" (inside a
\* literal) or "after" (a literal just ended). Anything else in the list
\* (a bare word, a missing literal, an unterminated literal) is an error.
RECURSIVE ParseInList(_, _, _, _, _)
ParseInList(s, k, mode, cur, acc) ==
    IF k > Len(s)
    THEN IF mode = "after" \/ (mode = "start" /\ Len(s) = 0)
         THEN [ok |-> TRUE, vals |-> acc]
         ELSE [ok |-> FALSE, vals |-> {}]
    ELSE IF mode = "start"
    THEN IF s[k] = Quote THEN ParseInList(s, k + 1, "in", <<>>, acc)
         ELSE [ok |-> FALSE, vals |-> {}]
    ELSE IF mode = "in"
    THEN IF s[k] # Quote THEN ParseInList(s, k + 1, "in", Append(cur, s[k]), acc)
         ELSE IF k < Len(s) /\ s[k + 1] = Quote
              THEN ParseInList(s, k + 2, "in", Append(cur, Quote), acc)
              ELSE ParseInList(s, k + 1, "after", <<>>, acc \cup {cur})
    ELSE IF s[k] = "," THEN ParseInList(s, k + 1, "start", <<>>, acc)
         ELSE [ok |-> FALSE, vals |-> {}]

\* SELECT * FROM orig.table WHERE varname IN (wanted): ok is FALSE when
\* the statement does not compile.
SelectIn(t, varname, wanted) ==
    LET list == ParseInList(wanted, 1, "start", <<>>, {})
        col  == ColumnIndex(t, varname)
    IN  [ok   |-> list.ok,
         rows |-> IF list.ok
                  THEN KeepMarked(t.rows, [k \in 1..Len(t.rows) |->
                          /\ t.rows[k][col] # NULL
                          /\ t.rows[k][col] \in list.vals])
                  ELSE <<>>]

\* The unfiltered copy, with the fact tables' filter applied to it as well.
SelectAllFiltered(t) == SelectIn(t, t.cols[1], wanted_ids)

\* SELECT * FROM orig.table
SelectAll(t) == [ok |-> TRUE, rows |-> t.rows]

\* extract_datatables_and_ids: each table with the name of its first column.
ExtractDatatablesAndIds(tables, only_data) ==
    LET all == [k \in 1..Len(tables) |-> <<tables[k].name, tables[k].cols[1]>>]
    IN  IF only_data
        THEN KeepMarked(all, [k \in 1..Len(all) |-> EndsWith(all[k][1], DataSuffix)])
        ELSE all

\* CREATE TABLE name AS ..., run on the connection to `target`: the new
\* table goes to that connection's main store. ok is FALSE when the table
\* is already there.
CreateTableAs(files, target, name, cols, rows) ==
    IF HasTable(files[target].tables, name)
    THEN [ok |-> FALSE, files |-> files]
    ELSE [ok |-> TRUE,
          files |-> [files EXCEPT ![target] =
                        File(Append(@.tables, Table(name, cols, rows)))]]

\* sqlite3.connect(path): the file is created, empty, when it is not there.
Connect(files, path) ==
    IF files[path].exists THEN files ELSE [files EXCEPT ![path] = File(<<>>)]

\* The assertions of lines 100 and 101, left out.
InputNotAsserted(files, path) == TRUE
OutputNotAsserted(files, path) == TRUE

\* assert os.path.exists(input_db)
InputAsserted(files, path) == files[path].exists

\* assert not os.path.exists(output_db)
OutputAsserted(files, path) == ~files[path].exists

\* ------------------------------------------------ downsize_by_update

NoBuild == [pc |-> "off"]

DsLocalsReset ==
    /\ wanted_list' = <<>>
    /\ wanted_ids' = <<>>
    /\ tvar_pairs' = <<>>
    /\ idx' = 0
    /\ conn_new' = FALSE
    /\ err' = ""

DsInit ==
    /\ \E store \in SourceStores :
          fs = [p \in Paths |-> IF p = "in.sqlite" THEN File(store) ELSE Absent]
    /\ fs0 = fs
    /\ pc = "idle"
    /\ input_db = "none"
    /\ output_db = "none"
    /\ date_filter = <<>>
    /\ wanted_list = <<>>
    /\ wanted_ids = <<>>
    /\ tvar_pairs = <<>>
    /\ idx = 0
    /\ conn_new = FALSE
    /\ err = ""

Init == DsInit /\ des = NoBuild /\ dat = NoBuild

Fail(e) ==
    /\ pc' = "failed"
    /\ err' = e

\* A caller calls downsize_by_update(input_db, output_db, date_filter).
Call ==
    /\ pc = "idle"
    /\ \E i \in Paths, o \in Paths, f \in DateFilters :
          /\ input_db' = i
          /\ output_db' = o
          /\ date_filter' = f
    /\ pc' = "assert_input"
    /\ fs0' = fs
    /\ UNCHANGED <<fs, wanted_list, wanted_ids, tvar_pairs, idx, conn_new, err, des, dat>>

\* Line 100.
AssertInput ==
    /\ pc = "assert_input"
    /\ IF InputAsserted(fs, input_db)
       THEN pc' = "assert_output" /\ err' = err
       ELSE Fail("input_missing")
    /\ UNCHANGED <<fs, input_db, output_db, date_filter, wanted_list, wanted_ids,
                   tvar_pairs, idx, conn_new, fs0, des, dat>>

\* Line 101.
AssertOutput ==
    /\ pc = "assert_output"
    /\ IF OutputAsserted(fs, output_db)
       THEN pc' = "connect" /\ err' = err
       ELSE Fail("destination_exists")
    /\ UNCHANGED <<fs, input_db, output_db, date_filter, wanted_list, wanted_ids,
                   tvar_pairs, idx, conn_new, fs0, des, dat>>

\* Lines 104-107: both connections are opened.
ConnectBoth ==
    /\ pc = "connect"
    /\ fs' = Connect(Connect(fs, input_db), output_db)
    /\ conn_new' = TRUE
    /\ pc' = "extract"
    /\ UNCHANGED <<input_db, output_db, date_filter, wanted_list, wanted_ids,
                   tvar_pairs, idx, err, fs0, des, dat>>

\* Lines 110-111: the identifiers, and the text of the IN list.
ExtractIds ==
    /\ pc = "extract"
    /\ LET got == ExtractIdsByUpdate(Connect(fs, input_db)[input_db].tables,
                                     date_filter, ParentTable, UpdateColumn)
       IN  IF got.ok
           THEN /\ wanted_list' = got.ids
                /\ wanted_ids' = JoinQuoted(got.ids)
                /\ pc' = "index"
                /\ err' = err
           ELSE /\ Fail("store_error")
                /\ UNCHANGED <<wanted_list, wanted_ids>>
    /\ UNCHANGED <<fs, input_db, output_db, date_filter, tvar_pairs, idx, conn_new,
                   fs0, des, dat>>

\* Lines 112-115: the table-variable pairs; the source is attached as orig.
BuildIndex ==
    /\ pc = "index"
    /\ tvar_pairs' = ExtractDatatablesAndIds(fs[input_db].tables, FALSE)
    /\ idx' = 1
    /\ pc' = "loop"
    /\ UNCHANGED <<fs, input_db, output_db, date_filter, wanted_list, wanted_ids,
                   conn_new, err, fs0, des, dat>>

\* Lines 118-124: one turn of the loop over the tables.
CopyTable ==
    /\ pc = "loop"
    /\ idx <= Len(tvar_pairs)
    /\ LET table   == tvar_pairs[idx][1]
           varname == tvar_pairs[idx][2]
           orig    == TableNamed(fs[input_db].tables, table)
           sel     == IF EndsWith(table, DataSuffix)
                      THEN SelectIn(orig, varname, wanted_ids)
                      ELSE SelectAll(orig)
           made    == CreateTableAs(fs, output_db, table, orig.cols, sel.rows)
       IN  IF sel.ok /\ made.ok
           THEN /\ fs' = made.files
                /\ idx' = idx + 1
                /\ pc' = pc
                /\ err' = err
           ELSE /\ Fail("store_error")
                /\ UNCHANGED <<fs, idx>>
    /\ UNCHANGED <<input_db, output_db, date_filter, wanted_list, wanted_ids,
                   tvar_pairs, conn_new, fs0, des, dat>>

\* Lines 127-131: detach and close.
Finish ==
    /\ pc = "loop"
    /\ idx > Len(tvar_pairs)
    /\ pc' = "done"
    /\ conn_new' = FALSE
    /\ UNCHANGED <<fs, input_db, output_db, date_filter, wanted_list, wanted_ids,
                   tvar_pairs, idx, err, fs0, des, dat>>

\* The call is over (it returned, or its error reached the caller).
Return ==
    /\ pc \in {"done", "failed"}
    /\ pc' = "idle"
    /\ input_db' = "none"
    /\ output_db' = "none"
    /\ date_filter' = <<>>
    /\ DsLocalsReset
    /\ fs0' = fs
    /\ UNCHANGED <<fs, des, dat>>

Next ==
    \/ Call
    \/ AssertInput
    \/ AssertOutput
    \/ ConnectBoth
    \/ ExtractIds
    \/ BuildIndex
    \/ CopyTable
    \/ Finish
    \/ Return

Spec == Init /\ [][Next]_vars

\* ================================================================ build.py

\* Rows of a description document / lines of a data file.
MaxDesLines == 3
MaxDatLines == 2

\* ------------------------------------------------------------- Python text

Whitespace == {" ", "\t", "\n", "\r"}

IsSpace(c) == c \in Whitespace

RECURSIVE LStrip(_)
LStrip(s) == IF s # <<>> /\ IsSpace(Head(s)) THEN LStrip(Tail(s)) ELSE s

RECURSIVE RStrip(_)
RStrip(s) ==
    IF s # <<>> /\ IsSpace(s[Len(s)]) THEN RStrip(SubSeq(s, 1, Len(s) - 1)) ELSE s

\* str.strip(): leading and trailing whitespace removed.
Strip(s) == RStrip(LStrip(s))

\* The end of the run of whitespace that begins at k.
RECURSIVE RunEnd(_, _)
RunEnd(s, k) == IF k < Len(s) /\ IsSpace(s[k + 1]) THEN RunEnd(s, k + 1) ELSE k

\* re.sub("(?<=\S)\s{3,}(?=\S)", sep, line) from place k on: a run of
\* three or more whitespace characters with a non-whitespace character on
\* each side becomes sep; every other character stays.
RECURSIVE ReSubFrom(_, _, _)
ReSubFrom(s, k, sep) ==
    IF k > Len(s) THEN <<>>
    ELSE IF ~IsSpace(s[k]) THEN <<s[k]>> \o ReSubFrom(s, k + 1, sep)
    ELSE LET e == RunEnd(s, k)
         IN  IF k > 1 /\ e < Len(s) /\ e - k + 1 >= 3
             THEN <<sep>> \o ReSubFrom(s, e + 1, sep)
             ELSE SubSeq(s, k, e) \o ReSubFrom(s, e + 1, sep)

ReSub(s, sep) == ReSubFrom(s, 1, sep)

\* str.split(sep): the pieces between separators; "" gives one empty piece.
RECURSIVE SplitFrom(_, _, _)
SplitFrom(s, sep, cur) ==
    IF s = <<>> THEN <<cur>>
    ELSE IF Head(s) = sep THEN <<cur>> \o SplitFrom(Tail(s), sep, <<>>)
    ELSE SplitFrom(Tail(s), sep, Append(cur, Head(s)))

Split(s, sep) == SplitFrom(s, sep, <<>>)

\* Python's s[start:end], negative places counted from the end.
PySlice(s, start, end) ==
    LET n     == Len(s)
        Fix(k) == IF k < 0 THEN (IF k + n < 0 THEN 0 ELSE k + n)
                  ELSE (IF k > n THEN n ELSE k)
    IN  SubSeq(s, Fix(start) + 1, Fix(end))

Digits == <<"0", "1", "2", "3", "4", "5", "6", "7", "8", "9">>

IsDigit(c) == \E k \in 1..10 : Digits[k] = c

DigitValue(c) == (CHOOSE k \in 1..10 : Digits[k] = c) - 1

RECURSIVE DigitsValue(_, _)
DigitsValue(s, acc) ==
    IF s = <<>> THEN acc ELSE DigitsValue(Tail(s), 10 * acc + DigitValue(Head(s)))

\* int(v): a text of digits, whitespace around it allowed; ok is FALSE
\* for None (TypeError) and for any other text (ValueError).
PyInt(v) ==
    IF v = NULL THEN [ok |-> FALSE, val |-> 0]
    ELSE LET t == Strip(v)
         IN  IF t # <<>> /\ \A k \in 1..Len(t) : IsDigit(t[k])
             THEN [ok |-> TRUE, val |-> DigitsValue(t, 0)]
             ELSE [ok |-> FALSE, val |-> 0]

\* ------------------------------------------------------ preprocess_des_file

Sep == "|"

DefaultNames == <<<<"N", "a", "m", "e">>, <<"D", "e", "s", "c", "r", "i", "p", "t", "i", "o", "n">>, <<"T", "y", "p", "e">>, <<"S", "t", "a", "r", "t">>, <<"L", "e", "n", "g", "t", "h">>>>

\* Lines 38-39: one line, its separators set and stripped.
NormalizeLine(line, sep) == Strip(ReSub(line, sep))

\* Line 45.
SplitLines(temp, sep) == [k \in 1..Len(temp) |-> Split(temp[k], sep)]

Max(S) == CHOOSE m \in S : \A x \in S : x <= m

\* Line 46, pd.DataFrame(list of lists): as many columns as the longest
\* list has fields, the shorter lists padded with None.
DataFrame(lists) ==
    LET ncols == IF lists = <<>> THEN 0
                 ELSE Max({Len(lists[k]) : k \in 1..Len(lists)})
    IN  [ncols |-> ncols,
         rows  |-> [k \in 1..Len(lists) |->
                      [c \in 1..ncols |->
                         IF c <= Len(lists[k]) THEN lists[k][c] ELSE NULL]]]

\* Line 47, out.columns = names: a ValueError unless the frame has as
\* many columns as names has entries.
ColumnsFit(frame, names) == frame.ncols = Len(names)

\* The header dropped wherever it stands, not only in the first row.
DropEveryHeader(rows, names) ==
    KeepMarked(rows, [k \in 1..Len(rows) |-> rows[k] # names])

\* Lines 48-49: the first row dropped when it equals names.
DropHeader(rows, names) ==
    IF rows[1] = names THEN Tail(rows) ELSE rows

\* The whole function: ok is FALSE when line 47 raises.
PreprocessDesFile(lines, sep, names) ==
    LET temp  == [k \in 1..Len(lines) |-> NormalizeLine(lines[k], sep)]
        frame == DataFrame(SplitLines(temp, sep))
    IN  IF ColumnsFit(frame, names)
        THEN [ok |-> TRUE, rows |-> DropHeader(frame.rows, names)]
        ELSE [ok |-> FALSE, rows |-> <<>>]

\* The lines of description documents.
HeaderLine   == <<"N", "a", "m", "e", " ", " ", " ", "D", "e", "s", "c", "r", "i", "p", "t", "i", "o", "n", " ", " ", " ", "T", "y", "p", "e", " ", " ", " ", "S", "t", "a", "r", "t", " ", " ", " ", "L", "e", "n", "g", "t", "h", "\n">>
IdLine       == <<"I", "D", " ", " ", " ", "i", "d", " ", "n", "o", " ", " ", " ", "C", "H", "A", "R", " ", " ", " ", "1", " ", " ", " ", "2", "\n">>
DateLine     == <<"D", "T", " ", " ", " ", "d", "a", "t", "e", " ", " ", " ", "D", "A", "T", "E", " ", " ", " ", "3", " ", " ", " ", "8", "\n">>
\* A first field that begins at the line's third character.
PadLine      == <<"F", "3", " ", " ", " ", "p", "a", "d", " ", " ", " ", "C", "H", "A", "R", " ", " ", " ", "3", " ", " ", " ", "2", "\n">>
\* Leading whitespace, a tab in a separator, no line terminator.
IndentLine   == <<" ", " ", " ", " ", "V", " ", "\t", " ", "v", " ", " ", " ", "C", "H", "A", "R", " ", " ", " ", "1", "1", " ", " ", " ", " ", "1">>
\* Two fields only.
ShortLine    == <<"I", "D", " ", " ", " ", "i", "d", " ", "n", "o", "\n">>
BlankLine    == <<"\n">>
\* Six fields: one more separator run.
LongLine     == <<"I", "D", " ", " ", " ", "i", "d", " ", "n", "o", " ", " ", " ", "C", "H", "A", "R", " ", " ", " ", "1", " ", " ", " ", "2", " ", " ", " ", "x", "\n">>
\* Six fields: the separator character is in the description.
BarLine      == <<"I", "D", " ", " ", " ", "a", "|", "b", " ", " ", " ", "C", "H", "A", "R", " ", " ", " ", "1", " ", " ", " ", "2", "\n">>
\* The header, with two spaces instead of a separator run before Type.
NearHeader   == <<"N", "a", "m", "e", " ", " ", " ", "D", "e", "s", "c", "r", "i", "p", "t", "i", "o", "n", " ", " ", "T", "y", "p", "e", " ", " ", " ", "S", "t", "a", "r", "t", " ", " ", " ", "L", "e", "n", "g", "t", "h", "\n">>
\* Start is not a number.
WordStartLine == <<"I", "D", " ", " ", " ", "i", "d", " ", "n", "o", " ", " ", " ", "C", "H", "A", "R", " ", " ", " ", "o", "n", "e", " ", " ", " ", "2", "\n">>

DesLineValues ==
    { HeaderLine, IdLine, DateLine, IndentLine, ShortLine, BlankLine,
      LongLine, BarLine, NearHeader }

ShortNames == <<<<"N", "a", "m", "e">>, <<"D", "e", "s", "c", "r", "i", "p", "t", "i", "o", "n">>>>

DesInit ==
    /\ \E lines \in SeqsUpTo(DesLineValues, MaxDesLines),
          names \in {DefaultNames, ShortNames} :
          des = [pc |-> "normalize", lines |-> lines, names |-> names,
                 temp |-> <<>>, rows |-> <<>>, err |-> ""]
    /\ dat = NoBuild
    \* downsize.py is not running.
    /\ fs = [p \in Paths |-> Absent]
    /\ fs0 = fs
    /\ pc = "off"
    /\ input_db = "none"
    /\ output_db = "none"
    /\ date_filter = <<>>
    /\ wanted_list = <<>>
    /\ wanted_ids = <<>>
    /\ tvar_pairs = <<>>
    /\ idx = 0
    /\ conn_new = FALSE
    /\ err = ""

\* Lines 35-39: one turn of the loop over the lines.
DesNormalize ==
    /\ des.pc = "normalize"
    /\ Len(des.temp) < Len(des.lines)
    /\ des' = [des EXCEPT !.temp =
                 Append(@, NormalizeLine(des.lines[Len(des.temp) + 1], Sep))]
    /\ UNCHANGED <<dsVars, dat>>

\* Lines 45-47: the frame, and its column names.
DesFrame ==
    /\ des.pc = "normalize"
    /\ Len(des.temp) = Len(des.lines)
    /\ LET frame == DataFrame(SplitLines(des.temp, Sep))
       IN  IF ColumnsFit(frame, des.names)
           THEN des' = [des EXCEPT !.pc = "header", !.rows = frame.rows]
           ELSE des' = [des EXCEPT !.pc = "done", !.err = "malformed_schema"]
    /\ UNCHANGED <<dsVars, dat>>

\* Lines 48-51.
DesHeader ==
    /\ des.pc = "header"
    /\ des' = [des EXCEPT !.pc = "done", !.rows = DropHeader(des.rows, des.names)]
    /\ UNCHANGED <<dsVars, dat>>

DesNext ==
    \/ DesNormalize
    \/ DesFrame
    \/ DesHeader

SpecDes == DesInit /\ [][DesNext]_vars

\* ------------------------------------------------------------ get_date_cols

DateMarker == <<"D", "A", "T", "E">>

\* The place of a column among the frame's column names.
ColumnOf(names, col) == CHOOSE k \in 1..Len(names) : names[k] = col

\* The row that sets out[row[var]] last: no later row has its name.
IsLastOfName(rows, k, var) ==
    \A j \in (k + 1)..Len(rows) : rows[j][var] # rows[k][var]

\* Lines 76-84: the names whose type, as the last row of that name gives
\* it, is the date marker.
GetDateCols(rows, names) ==
    LET var  == ColumnOf(names, <<"N", "a", "m", "e">>)
        type == ColumnOf(names, <<"T", "y", "p", "e">>)
    IN  { rows[k][var] : k \in { j \in 1..Len(rows) :
                                   /\ IsLastOfName(rows, j, var)
                                   /\ rows[j][type] = DateMarker } }

\* ------------------------------------------------------ preprocess_dat_file

NaT == <<"<NaT>">>

\* A calendar date, written year-month-day.
DateValue(y, m, d) == <<"<date>">> \o y \o <<"-">> \o m \o <<"-">> \o d

AllDigits(s) == \A k \in 1..Len(s) : IsDigit(s[k])

\* A year, a month and a day pandas' Timestamp holds.
IsCalendarDate(y, m, d) ==
    /\ AllDigits(y) /\ AllDigits(m) /\ AllDigits(d)
    /\ DigitsValue(y, 0) \in 1678..2261
    /\ DigitsValue(m, 0) \in 1..12
    /\ DigitsValue(d, 0) \in 1..28

\* The texts read as a date: YYYYMMDD and YYYY-MM-DD (days 29 to 31,
\* which depend on the month, are left out of the model's inputs).
ReadDate(s) ==
    IF Len(s) = 8 /\ IsCalendarDate(SubSeq(s, 1, 4), SubSeq(s, 5, 6), SubSeq(s, 7, 8))
    THEN [ok |-> TRUE, val |-> DateValue(SubSeq(s, 1, 4), SubSeq(s, 5, 6), SubSeq(s, 7, 8))]
    ELSE IF /\ Len(s) = 10 /\ s[5] = "-" /\ s[8] = "-"
            /\ IsCalendarDate(SubSeq(s, 1, 4), SubSeq(s, 6, 7), SubSeq(s, 9, 10))
    THEN [ok |-> TRUE, val |-> DateValue(SubSeq(s, 1, 4), SubSeq(s, 6, 7), SubSeq(s, 9, 10))]
    ELSE [ok |-> FALSE, val |-> NaT]

\* pd.to_datetime(s, errors=errors).date(): a text that is no date gives
\* NaT under "coerce" and raises under "raise".
ToDatetime(s, errors) ==
    LET got == ReadDate(s)
    IN  IF got.ok THEN got
        ELSE IF errors = "coerce" THEN [ok |-> TRUE, val |-> NaT]
        ELSE [ok |-> FALSE, val |-> NaT]

\* The date conversion with errors="raise".
DateOrRaise(s) == ToDatetime(s, "raise")

\* Lines 128-129.
DateOrNaT(s) == ToDatetime(s, "coerce")

\* Lines 124-131: the fields of one line, from schema row k on, added to
\* temp; ok is FALSE when int() or the date conversion raises.
RECURSIVE DecodeFields(_, _, _, _, _, _, _)
DecodeFields(line, rows, names, dt, fix_dates, k, temp) ==
    IF k > Len(rows) THEN [ok |-> TRUE, rec |-> temp]
    ELSE LET row    == rows[k]
             name   == row[ColumnOf(names, <<"N", "a", "m", "e">>)]
             start  == PyInt(row[ColumnOf(names, <<"S", "t", "a", "r", "t">>)])
             length == PyInt(row[ColumnOf(names, <<"L", "e", "n", "g", "t", "h">>)])
         IN  IF ~start.ok \/ ~length.ok THEN [ok |-> FALSE, rec |-> temp]
             ELSE LET from  == start.val - 1
                      to    == from + length.val
                      slice == PySlice(Strip(line), from, to)
                      value == IF name \in dt /\ fix_dates
                               THEN DateOrNaT(slice)
                               ELSE [ok |-> TRUE, val |-> slice]
                  IN  IF ~value.ok THEN [ok |-> FALSE, rec |-> temp]
                      ELSE DecodeFields(line, rows, names, dt, fix_dates, k + 1,
                                        (name :> value.val) @@ temp)

\* subset: None, or a number of rows.
NoSubset == [given |-> FALSE, n |-> 0]
Subset(n) == [given |-> TRUE, n |-> n]

\* Lines 119-120: lines[0:subset], all the lines when subset is None.
TakeSubset(lines, subset) ==
    IF subset.given THEN PySlice(lines, 0, subset.n) ELSE lines

\* The lines of data files: two characters of identifier, eight of date,
\* one of a last field.
PlainDat   == <<"A", "B", "2", "0", "2", "3", "0", "1", "1", "5", "x", "\n">>
\* The identifier field begins with a space.
PaddedDat  == <<" ", "B", "2", "0", "2", "3", "0", "1", "1", "5", "x", "\n">>
\* No date in the date field; the last field is a space.
NoDateDat  == <<"A", "B", "X", "X", "X", "X", "X", "X", "X", "X", " ", "\n">>
ShortDat   == <<"A", "B", "\n">>
BlankDat   == <<"\n">>
\* A leading zero, a month 13, no line terminator.
ZeroDat    == <<"0", "7", "2", "0", "2", "3", "1", "3", "0", "1", "z">>

DatLineValues == { PlainDat, PaddedDat, NoDateDat, ShortDat, BlankDat, ZeroDat }

DesDocuments ==
    { <<HeaderLine, IdLine, DateLine, IndentLine>>,
      <<IdLine, DateLine>>,
      <<PadLine, DateLine, IdLine>>,
      <<DateLine>>,
      <<IdLine, ShortLine>>,
      <<IdLine, WordStartLine>>,
      <<IdLine, LongLine>> }

DatInit ==
    /\ \E dl \in DesDocuments, lines \in SeqsUpTo(DatLineValues, MaxDatLines),
          fix \in BOOLEAN,
          subset \in {NoSubset} \cup {Subset(n) : n \in 0..(MaxDatLines + 1)} :
          dat = [pc |-> "des", des_lines |-> dl, dat_lines |-> lines,
                 fix_dates |-> fix, subset |-> subset,
                 des |-> <<>>, dt |-> {}, lines |-> <<>>, out |-> <<>>, err |-> ""]
    /\ des = NoBuild
    \* downsize.py is not running.
    /\ fs = [p \in Paths |-> Absent]
    /\ fs0 = fs
    /\ pc = "off"
    /\ input_db = "none"
    /\ output_db = "none"
    /\ date_filter = <<>>
    /\ wanted_list = <<>>
    /\ wanted_ids = <<>>
    /\ tvar_pairs = <<>>
    /\ idx = 0
    /\ conn_new = FALSE
    /\ err = ""

\* Lines 112-113: the schema and its date fields.
DatParseDes ==
    /\ dat.pc = "des"
    /\ LET got == PreprocessDesFile(dat.des_lines, Sep, DefaultNames)
       IN  IF got.ok
           THEN dat' = [dat EXCEPT !.pc = "read", !.des = got.rows,
                                   !.dt = GetDateCols(got.rows, DefaultNames)]
           ELSE dat' = [dat EXCEPT !.pc = "failed", !.err = "malformed_schema"]
    /\ UNCHANGED <<dsVars, des>>

\* Lines 116-120.
DatReadLines ==
    /\ dat.pc = "read"
    /\ dat' = [dat EXCEPT !.pc = "decode",
                          !.lines = TakeSubset(dat.dat_lines, dat.subset)]
    /\ UNCHANGED <<dsVars, des>>

\* Lines 122-132: one turn of the loop over the lines.
DatDecodeLine ==
    /\ dat.pc = "decode"
    /\ Len(dat.out) < Len(dat.lines)
    /\ LET got == DecodeFields(dat.lines[Len(dat.out) + 1], dat.des, DefaultNames,
                               dat.dt, dat.fix_dates, 1, <<>>)
       IN  IF got.ok
           THEN dat' = [dat EXCEPT !.out = Append(@, got.rec)]
           ELSE dat' = [dat EXCEPT !.pc = "failed", !.err = "field_error"]
    /\ UNCHANGED <<dsVars, des>>

\* Lines 135-137: the records are returned.
DatFrame ==
    /\ dat.pc = "decode"
    /\ Len(dat.out) = Len(dat.lines)
    /\ dat' = [dat EXCEPT !.pc = "done"]
    /\ UNCHANGED <<dsVars, des>>

DatNext ==
    \/ DatParseDes
    \/ DatReadLines
    \/ DatDecodeLine
    \/ DatFrame

SpecDat == DatInit /\ [][DatNext]_vars

\* ============================================================ the claims
\* ------------------------------------------------- of downsize_by_update

SourceTables == fs[input_db].tables
DestTables == fs[output_db].tables

\* The identifiers of the parent rows updated on or after date_filter.
UpdatedIds ==
    LET t == TableNamed(SourceTables, ParentTable)
    IN  { t.rows[k][1] : k \in { j \in 1..Len(t.rows) :
              /\ t.rows[j][2] # NULL
              /\ TextGE(t.rows[j][2], date_filter) } }

\* C1, as claimed: after a successful call every fact table of the
\* destination holds exactly the source rows whose identifier (first
\* column) is one of the parent rows' identifiers updated on or after
\* date_filter.
C1_FactTablesFilteredExactly ==
    pc = "done" =>
        \A k \in 1..Len(SourceTables) :
            LET t == SourceTables[k]
            IN  EndsWith(t.name, DataSuffix) =>
                  /\ HasTable(DestTables, t.name)
                  /\ TableNamed(DestTables, t.name).rows =
                        KeepMarked(t.rows, [j \in 1..Len(t.rows) |->
                                                t.rows[j][1] \in UpdatedIds])

\* C2: after a successful call every table that is not a fact table is in
\* the destination with the columns and the rows of the source, in order.
C2_OtherTablesCopiedVerbatim ==
    pc = "done" =>
        \A k \in 1..Len(SourceTables) :
            LET t == SourceTables[k]
            IN  ~EndsWith(t.name, DataSuffix) =>
                  /\ HasTable(DestTables, t.name)
                  /\ TableNamed(DestTables, t.name) = t

\* C2's case: a successful call whose date filter selected no row of a
\* parent table that has rows, and the description table was copied.
C2_Witness ==
    /\ pc = "done"
    /\ wanted_list = <<>>
    /\ TableNamed(SourceTables, ParentTable).rows # <<>>
    /\ HasTable(DestTables, ParentDesc)
    /\ Len(TableNamed(DestTables, ParentDesc).rows) = 2

\* The call began with the destination path existing.
DestinationExisted == pc # "idle" /\ fs0[output_db].exists

\* No work was begun: the call is at its assertions or has failed, the
\* file system is as it was and no connection to the destination is open.
NoWorkBegun ==
    /\ pc \in {"assert_input", "assert_output", "failed"}
    /\ fs = fs0
    /\ ~conn_new

\* C3, as claimed: a call whose destination path exists fails with the
\* destination-exists error before any work begins.
C3_FailsWithDestinationExists ==
    DestinationExisted =>
        /\ NoWorkBegun
        /\ pc = "failed" => err = "destination_exists"

\* C3, amended: a call whose destination path exists fails before any
\* work begins, with the destination-exists error when the source path
\* exists and with the source-missing error of line 100 when it does not.
C3_FailsBeforeAnyWork ==
    DestinationExisted =>
        /\ NoWorkBegun
        /\ pc = "failed" =>
              err = IF fs0[input_db].exists THEN "destination_exists"
                    ELSE "input_missing"

\* C3's case: the call was rejected because the destination exists.
C3_Witness ==
    /\ DestinationExisted
    /\ pc = "failed"
    /\ err = "destination_exists"

\* C4, as claimed: a call that failed before creating any destination
\* table leaves no file at a destination path that did not exist.
C4_NoArtifactAfterEarlyFailure ==
    (/\ pc = "failed"
     /\ ~fs0[output_db].exists
     /\ DestTables = <<>>) => ~fs[output_db].exists

\* C5, as claimed: after a successful call every row of the destination's
\* parent table has an update date on or after date_filter.
C5_ParentRowsAllUpdatedSince ==
    pc = "done" =>
        LET t == TableNamed(DestTables, ParentTable)
        IN  \A k \in 1..Len(t.rows) :
               /\ t.rows[k][2] # NULL
               /\ TextGE(t.rows[k][2], date_filter)

\* C7: during a call and at its end, however it ends, the source path
\* holds what it held when the call began (nothing, if it did not exist).
C7_SourceNeverMutated ==
    pc # "idle" => fs[input_db] = fs0[input_db]

\* C7's case: the call failed in the middle of the table loop, after it
\* had created a table in the destination.
C7_Witness ==
    /\ pc = "failed"
    /\ idx >= 2
    /\ DestTables # <<>>
    /\ fs[input_db].exists

\* ------------------------------------------------- of preprocess_des_file

\* The fields line k of the document splits into.
FieldsOfLine(k) == Split(NormalizeLine(des.lines[k], Sep), Sep)

LineWellFormed(k) == Len(FieldsOfLine(k)) = Len(des.names)

\* C8, as claimed: a document with a line that does not split into as
\* many fields as names has entries is refused with the malformed-schema
\* error, whatever the other lines are.
C8_RaggedLineIsRefused ==
    (/\ des.pc = "done"
     /\ \E k \in 1..Len(des.lines) : ~LineWellFormed(k))
        => des.err = "malformed_schema"

\* C9: for a document of n >= 1 lines that all split into as many fields
\* as names has entries, the schema is returned without error and holds
\* lines 2..n in order when the first line's fields equal names, and
\* lines 1..n in order otherwise.
C9_OnlyFirstRowIsHeader ==
    (/\ des.pc = "done"
     /\ Len(des.lines) >= 1
     /\ \A k \in 1..Len(des.lines) : LineWellFormed(k))
        => /\ des.err = ""
           /\ LET n     == Len(des.lines)
                  first == IF FieldsOfLine(1) = des.names THEN 2 ELSE 1
              IN  /\ Len(des.rows) = n - first + 1
                  /\ \A k \in first..n : des.rows[k - first + 1] = FieldsOfLine(k)

\* C9's case: the first line is the header and so is a later line, which
\* is kept.
C9_Witness ==
    /\ des.pc = "done"
    /\ des.err = ""
    /\ Len(des.lines) = 3
    /\ \A k \in 1..3 : LineWellFormed(k)
    /\ FieldsOfLine(1) = des.names
    /\ FieldsOfLine(3) = des.names
    /\ Len(des.rows) = 2
    /\ des.rows[2] = des.names

\* ------------------------------------------------- of preprocess_dat_file

\* The line without its trailing line terminator.
RECURSIVE WithoutTerminator(_)
WithoutTerminator(line) ==
    IF line # <<>> /\ line[Len(line)] \in {"\n", "\r"}
    THEN WithoutTerminator(SubSeq(line, 1, Len(line) - 1))
    ELSE line

NameOf(row) == row[ColumnOf(DefaultNames, <<"N", "a", "m", "e">>)]
StartOf(row) == PyInt(row[ColumnOf(DefaultNames, <<"S", "t", "a", "r", "t">>)])
LengthOf(row) == PyInt(row[ColumnOf(DefaultNames, <<"L", "e", "n", "g", "t", "h">>)])

\* The schema rows that give a record's fields their values.
FieldRows ==
    { k \in 1..Len(dat.des) :
         IsLastOfName(dat.des, k, ColumnOf(DefaultNames, <<"N", "a", "m", "e">>)) }

IsCoerced(row) == dat.fix_dates /\ NameOf(row) \in dat.dt

\* C6, as claimed: the value of every field that is not date-coerced is
\* line[Start-1 : Start-1+Length] of the line with only its trailing line
\* terminator removed.
C6_FieldIsExactSlice ==
    dat.pc = "done" =>
        \A i \in 1..Len(dat.out) : \A k \in FieldRows :
            LET row == dat.des[k]
            IN  ~IsCoerced(row) =>
                  dat.out[i][NameOf(row)] =
                     PySlice(WithoutTerminator(dat.lines[i]),
                             StartOf(row).val - 1,
                             StartOf(row).val - 1 + LengthOf(row).val)

\* The description document gives a well-formed schema: every line splits
\* into the five fields and every Start and Length of the schema is a number.
WellFormedSchema ==
    LET got == PreprocessDesFile(dat.des_lines, Sep, DefaultNames)
    IN  /\ \A k \in 1..Len(dat.des_lines) :
              Len(Split(NormalizeLine(dat.des_lines[k], Sep), Sep)) = Len(DefaultNames)
        /\ got.ok
        /\ \A k \in 1..Len(got.rows) :
              StartOf(got.rows[k]).ok /\ LengthOf(got.rows[k]).ok

\* The number of records n lines give under dat.subset.
ExpectedRecords ==
    LET n == Len(dat.dat_lines)
    IN  IF ~dat.subset.given THEN n
        ELSE IF dat.subset.n < n THEN dat.subset.n ELSE n

\* C10: with a well-formed schema the decoding never fails; it returns
\* one record per line (min(subset, n) of them when subset is given), the
\* i-th from the i-th line, each with a value for every schema field: a
\* text no longer than Length (empty or short when the line is), or, for
\* a date-coerced field, a date or the missing marker, which it is
\* whenever the slice is no date.
C10_OneRecordPerLine ==
    WellFormedSchema =>
        /\ dat.pc # "failed"
        /\ dat.pc = "done" =>
              /\ Len(dat.out) = ExpectedRecords
              /\ \A i \in 1..Len(dat.out) :
                    /\ DOMAIN dat.out[i] = { NameOf(dat.des[k]) : k \in 1..Len(dat.des) }
                    /\ \A k \in FieldRows :
                          LET row   == dat.des[k]
                              from  == StartOf(row).val - 1
                              slice == PySlice(Strip(dat.dat_lines[i]), from,
                                               from + LengthOf(row).val)
                              value == dat.out[i][NameOf(row)]
                          IN  IF IsCoerced(row)
                              THEN /\ ~ReadDate(slice).ok => value = NaT
                                   /\ ReadDate(slice).ok => value = ReadDate(slice).val
                              ELSE /\ value = slice
                                   /\ Len(value) <= LengthOf(row).val

\* C10's case: two lines decoded under a schema with a date field, the
\* first with a slice that is no date (the missing marker), the second
\* too short for the field (the missing marker again, from an empty slice).
C10_Witness ==
    /\ WellFormedSchema
    /\ dat.pc = "done"
    /\ dat.fix_dates
    /\ dat.dat_lines = <<NoDateDat, ShortDat>>
    /\ Len(dat.out) = 2
    /\ dat.dt # {}
    /\ \A name \in dat.dt : dat.out[1][name] = NaT /\ dat.out[2][name] = NaT

====
